---- MODULE Spec2Model ----
(***************************************************************************)
(* Model of the FinOps cost analyst pipeline (finops-cost-data-analyst)    *)
(* and of its SQL security validator (_tools/validation_tools.py).         *)
(*                                                                         *)
(* A SQL text is a sequence of one-character strings, so that case         *)
(* folding, word boundaries, trimming and counting are computed character  *)
(* by character as the Python code computes them.  Messages (the second    *)
(* component of a verdict) are TLA+ strings.                               *)
(***************************************************************************)
EXTENDS Integers, Sequences, FiniteSets, TLC

VARIABLES
    pc,                 \* the sub-agent the SequentialAgent runs next, or "done"
    sql_query,          \* state['sql_query'], a character sequence
    validation_result,  \* state['validation_result']
    query_results,      \* state['query_results']
    final_insights,     \* state['final_insights']
    tool_call,          \* the last validation tool call and what it returned
    started,            \* the sub-agents started so far, in order
    written,            \* the state keys written so far, in order
    forbidden_keywords, \* the module-level list FORBIDDEN_KEYWORDS
    forbidden_patterns, \* the module-level list FORBIDDEN_PATTERNS
    calls,              \* per caller, its invocation of a validator function
    calc,               \* the last call of calculate and how it ended
    client              \* the call of FinOpsAgentClient.query and where it stands

vars == <<pc, sql_query, validation_result, query_results, final_insights,
          tool_call, started, written,
          forbidden_keywords, forbidden_patterns, calls, calc, client>>

\* the state of the validator module and of its callers
call_vars == <<forbidden_keywords, forbidden_patterns, calls>>

\* the state of the callers of the example tools
example_vars == <<calc, client>>

\* the state of the pipeline
pipeline_vars == <<pc, sql_query, validation_result, query_results, final_insights,
                   tool_call, started, written>>

(***************************************************************************)
(* Bounds                                                                  *)
(***************************************************************************)
\* number of fragments the generated SQL text is made of, at most
MaxFrags == 2

\* number of callers that invoke the validator functions concurrently
MaxCalls == 2

\* the numbers passed to calculate have numerators -MaxNum..MaxNum
MaxNum == 2

(***************************************************************************)
(* Characters and the str methods the validator uses                       *)
(***************************************************************************)
LowerCase == <<"a","b","c","d","e","f","g","h","i","j","k","l","m",
               "n","o","p","q","r","s","t","u","v","w","x","y","z">>
UpperCase == <<"A","B","C","D","E","F","G","H","I","J","K","L","M",
               "N","O","P","Q","R","S","T","U","V","W","X","Y","Z">>
Digits == {"0","1","2","3","4","5","6","7","8","9"}

\* the character U+0060, which a TLA+ string literal cannot hold
Backtick == "<backtick>"

Range(f) == {f[i] : i \in DOMAIN f}

\* regex \w on the characters of the model
WordChars == Range(LowerCase) \cup Range(UpperCase) \cup Digits \cup {"_"}

IsWordChar(c) == c \in WordChars

\* regex \s, and the characters str.strip() removes
IsSpace(c) == c \in {" ", "\t", "\n", "\r"}

UpperOf == [c \in Range(LowerCase) |-> UpperCase[CHOOSE i \in 1..26 : LowerCase[i] = c]]

upper_char(c) == IF c \in DOMAIN UpperOf THEN UpperOf[c] ELSE c

\* upper() left out: the text is compared as given
upper_identity(s) == s

\* str.upper()
upper(s) == [i \in 1..Len(s) |-> upper_char(s[i])]

LowerOf == [c \in Range(UpperCase) |-> LowerCase[CHOOSE i \in 1..26 : UpperCase[i] = c]]

\* lower() left out: the operation name is looked up as given
lower_identity(s) == s

\* str.lower()
lower(s) == [i \in 1..Len(s) |-> IF s[i] \in DOMAIN LowerOf THEN LowerOf[s[i]] ELSE s[i]]

\* str.count(c) for a one-character c
count(s, c) == Cardinality({i \in 1..Len(s) : s[i] = c})

RECURSIVE lstrip(_)
lstrip(s) == IF s # <<>> /\ IsSpace(s[1]) THEN lstrip(Tail(s)) ELSE s

RECURSIVE rstrip(_)
rstrip(s) ==
    IF s # <<>> /\ IsSpace(s[Len(s)]) THEN rstrip(SubSeq(s, 1, Len(s) - 1)) ELSE s

\* str.lstrip() where the code calls str.strip()
strip_leading_only(s) == lstrip(s)

\* str.strip()
strip(s) == rstrip(lstrip(s))

\* 'SELECT' in sql_upper instead of sql_upper.startswith('SELECT')
startswith_anywhere(s, p) == \E i \in 1..(Len(s) - Len(p) + 1) : SubSeq(s, i, i + Len(p) - 1) = p

\* str.startswith(p), str.endswith(p)
startswith(s, p) == Len(s) >= Len(p) /\ SubSeq(s, 1, Len(p)) = p
endswith(s, p) == Len(s) >= Len(p) /\ SubSeq(s, Len(s) - Len(p) + 1, Len(s)) = p

\* p in s
contains(s, p) == \E i \in 1..(Len(s) - Len(p) + 1) : SubSeq(s, i, i + Len(p) - 1) = p

\* the text of a character sequence, as f-string interpolation renders it
RECURSIVE Text(_)
Text(s) == IF s = <<>> THEN "" ELSE s[1] \o Text(Tail(s))

\* a loop that keeps the last match instead of returning at the first
Last(S) == CHOOSE i \in S : \A j \in S : i >= j

\* least element of a non-empty set of indices: the first iteration of a
\* for loop that returns
First(S) == CHOOSE i \in S : \A j \in S : i <= j

(***************************************************************************)
(* validation_tools.py                                                     *)
(***************************************************************************)
FORBIDDEN_KEYWORDS == <<
    <<"D","R","O","P">>, <<"D","E","L","E","T","E">>, <<"I","N","S","E","R","T">>,
    <<"U","P","D","A","T","E">>, <<"T","R","U","N","C","A","T","E">>,
    <<"C","R","E","A","T","E">>, <<"A","L","T","E","R">>, <<"G","R","A","N","T">>,
    <<"R","E","V","O","K","E">>, <<"M","E","R","G","E">>,
    <<"E","X","E","C">>, <<"E","X","E","C","U","T","E">>, <<"C","A","L","L">>,
    <<"D","E","C","L","A","R","E">>, <<"S","E","T">> >>

\* the regex sources, in list order
FORBIDDEN_PATTERNS == << ";\\s*\\w", "--", "/\\*", "\\*/" >>

\* the keyword searched as a substring, without the \b anchors
re_search_substring(keyword, s) ==
    \E i \in 1..(Len(s) - Len(keyword) + 1) : SubSeq(s, i, i + Len(keyword) - 1) = keyword

\* re.search(r'\b' + keyword + r'\b', s): the keyword consists of word
\* characters, so \b before it means start of text or a non-word character
\* and \b after it means end of text or a non-word character
re_search_word(keyword, s) ==
    \E i \in 1..(Len(s) - Len(keyword) + 1) :
        /\ SubSeq(s, i, i + Len(keyword) - 1) = keyword
        /\ (i = 1 \/ ~IsWordChar(s[i - 1]))
        /\ (i + Len(keyword) > Len(s) \/ ~IsWordChar(s[i + Len(keyword)]))

\* re.match instead of re.search: the pattern is looked for at the start only
re_search_anchored(pattern, s) ==
    CASE pattern = ";\\s*\\w" ->
            /\ Len(s) >= 2
            /\ s[1] = ";"
            /\ \E j \in 2..Len(s) :
                  /\ s[j] \in WordChars
                  /\ \A k \in 2..(j - 1) : IsSpace(s[k])
      [] pattern = "--" -> Len(s) >= 2 /\ SubSeq(s, 1, 2) = <<"-", "-">>
      [] pattern = "/\\*" -> Len(s) >= 2 /\ SubSeq(s, 1, 2) = <<"/", "*">>
      [] pattern = "\\*/" -> Len(s) >= 2 /\ SubSeq(s, 1, 2) = <<"*", "/">>

\* re.search(pattern, s) for the four entries of FORBIDDEN_PATTERNS
re_search(pattern, s) ==
    CASE pattern = ";\\s*\\w" ->
            \E i \in 1..Len(s) :
                /\ s[i] = ";"
                /\ \E j \in (i + 1)..Len(s) :
                      /\ IsWordChar(s[j])
                      /\ \A k \in (i + 1)..(j - 1) : IsSpace(s[k])
      [] pattern = "--" -> contains(s, <<"-", "-">>)
      [] pattern = "/\\*" -> contains(s, <<"/", "*">>)
      [] pattern = "\\*/" -> contains(s, <<"*", "/">>)

\* lines 46-49: the keywords of the list found in the upper-cased text
keyword_hits(sql_upper) ==
    {k \in 1..Len(FORBIDDEN_KEYWORDS) : re_search_word(FORBIDDEN_KEYWORDS[k], sql_upper)}

\* lines 54-55: the patterns of the list found in the text as given
pattern_hits(sql) ==
    {p \in 1..Len(FORBIDDEN_PATTERNS) : re_search(FORBIDDEN_PATTERNS[p], sql)}

\* the guard with its second test left out
statement_guard_count_only(sql) ==
    IF count(sql, ";") > 1
    THEN <<FALSE, "Multiple statements detected (multiple semicolons)">>
    ELSE <<TRUE, "">>

\* the first test written as semicolon_count > 2
statement_guard_more_than_two(sql) ==
    LET semicolon_count == count(sql, ";")
    IN  IF semicolon_count > 2
        THEN <<FALSE, "Multiple statements detected (multiple semicolons)">>
        ELSE IF semicolon_count = 1 /\ ~endswith(strip(sql), <<";">>)
        THEN <<FALSE, "Semicolon found in middle of query">>
        ELSE <<TRUE, "">>

\* sql.endswith(';') instead of sql.strip().endswith(';')
statement_guard_unstripped(sql) ==
    LET semicolon_count == count(sql, ";")
    IN  IF semicolon_count > 1
        THEN <<FALSE, "Multiple statements detected (multiple semicolons)">>
        ELSE IF semicolon_count = 1 /\ ~endswith(sql, <<";">>)
        THEN <<FALSE, "Semicolon found in middle of query">>
        ELSE <<TRUE, "">>

\* lines 59-68: only one semicolon, at the very end
statement_guard(sql) ==
    LET semicolon_count == count(sql, ";")
    IN  IF semicolon_count > 1
        THEN <<FALSE, "Multiple statements detected (multiple semicolons)">>
        ELSE IF semicolon_count = 1 /\ ~endswith(strip(sql), <<";">>)
        THEN <<FALSE, "Semicolon found in middle of query">>
        ELSE <<TRUE, "">>

\* the two loops in the other order
check_forbidden_keywords_patterns_first(sql) ==
    LET kw == keyword_hits(upper(sql))
        pat == pattern_hits(sql)
    IN  IF pat # {}
        THEN <<FALSE, "Contains forbidden pattern: " \o FORBIDDEN_PATTERNS[First(pat)]>>
        ELSE IF kw # {}
        THEN <<FALSE, "Contains forbidden keyword: " \o Text(FORBIDDEN_KEYWORDS[First(kw)])>>
        ELSE statement_guard(sql)

\* the semicolon tests made before the loop over the patterns
check_forbidden_keywords_guard_first(sql) ==
    LET kw == keyword_hits(upper(sql))
        pat == pattern_hits(sql)
    IN  IF kw # {}
        THEN <<FALSE, "Contains forbidden keyword: " \o Text(FORBIDDEN_KEYWORDS[First(kw)])>>
        ELSE IF ~statement_guard(sql)[1]
        THEN statement_guard(sql)
        ELSE IF pat # {}
        THEN <<FALSE, "Contains forbidden pattern: " \o FORBIDDEN_PATTERNS[First(pat)]>>
        ELSE <<TRUE, "">>

check_forbidden_keywords(sql) ==
    LET kw == keyword_hits(upper(sql))
        pat == pattern_hits(sql)
    IN  IF kw # {}
        THEN <<FALSE, "Contains forbidden keyword: " \o Text(FORBIDDEN_KEYWORDS[First(kw)])>>
        ELSE IF pat # {}
        THEN <<FALSE, "Contains forbidden pattern: " \o FORBIDDEN_PATTERNS[First(pat)]>>
        ELSE statement_guard(sql)

\* lines 90-92: the text without its trailing semicolon
without_trailing_semicolon(sql_clean) ==
    IF endswith(sql_clean, <<";">>)
    THEN strip(SubSeq(sql_clean, 1, Len(sql_clean) - 1))
    ELSE sql_clean

\* a missing FROM rejected instead of logged
structure_checks_requires_from(sql_clean) ==
    LET sql_upper == upper(sql_clean)
    IN  IF ~(\/ startswith(sql_upper, <<"S","E","L","E","C","T">>)
             \/ startswith(sql_upper, <<"W","I","T","H">>))
        THEN <<FALSE, "Query must start with SELECT or WITH">>
        ELSE IF count(sql_clean, "(") # count(sql_clean, ")")
        THEN <<FALSE, "Unbalanced parentheses">>
        ELSE IF count(sql_clean, "'") % 2 # 0
        THEN <<FALSE, "Unbalanced single quotes">>
        ELSE IF count(sql_clean, "\"") % 2 # 0
        THEN <<FALSE, "Unbalanced double quotes">>
        ELSE IF count(sql_clean, Backtick) % 2 # 0
        THEN <<FALSE, "Unbalanced backticks">>
        ELSE IF ~contains(sql_upper, <<"F","R","O","M">>)
        THEN <<FALSE, "Query does not contain FROM clause">>
        ELSE <<TRUE, "">>

\* the backtick test left out
structure_checks_no_backticks(sql_clean) ==
    LET sql_upper == upper(sql_clean)
    IN  IF ~(\/ startswith(sql_upper, <<"S","E","L","E","C","T">>)
             \/ startswith(sql_upper, <<"W","I","T","H">>))
        THEN <<FALSE, "Query must start with SELECT or WITH">>
        ELSE IF count(sql_clean, "(") # count(sql_clean, ")")
        THEN <<FALSE, "Unbalanced parentheses">>
        ELSE IF count(sql_clean, "'") % 2 # 0
        THEN <<FALSE, "Unbalanced single quotes">>
        ELSE IF count(sql_clean, "\"") % 2 # 0
        THEN <<FALSE, "Unbalanced double quotes">>
        ELSE <<TRUE, "">>

\* some ) of s has more ) than ( up to and including it
closes_before_opens(s) ==
    \E i \in 1..Len(s) :
        count(SubSeq(s, 1, i), ")") > count(SubSeq(s, 1, i), "(")

\* a parenthesis test that follows the nesting instead of comparing counts
structure_checks_nesting(sql_clean) ==
    LET sql_upper == upper(sql_clean)
    IN  IF ~(\/ startswith(sql_upper, <<"S","E","L","E","C","T">>)
             \/ startswith(sql_upper, <<"W","I","T","H">>))
        THEN <<FALSE, "Query must start with SELECT or WITH">>
        ELSE IF count(sql_clean, "(") # count(sql_clean, ")") \/ closes_before_opens(sql_clean)
        THEN <<FALSE, "Unbalanced parentheses">>
        ELSE IF count(sql_clean, "'") % 2 # 0
        THEN <<FALSE, "Unbalanced single quotes">>
        ELSE IF count(sql_clean, "\"") % 2 # 0
        THEN <<FALSE, "Unbalanced double quotes">>
        ELSE IF count(sql_clean, Backtick) % 2 # 0
        THEN <<FALSE, "Unbalanced backticks">>
        ELSE <<TRUE, "">>

\* the prefix test made after the balance tests
structure_checks_prefix_last(sql_clean) ==
    LET sql_upper == upper(sql_clean)
    IN  IF count(sql_clean, "(") # count(sql_clean, ")")
        THEN <<FALSE, "Unbalanced parentheses">>
        ELSE IF count(sql_clean, "'") % 2 # 0
        THEN <<FALSE, "Unbalanced single quotes">>
        ELSE IF count(sql_clean, "\"") % 2 # 0
        THEN <<FALSE, "Unbalanced double quotes">>
        ELSE IF count(sql_clean, Backtick) % 2 # 0
        THEN <<FALSE, "Unbalanced backticks">>
        ELSE IF ~(\/ startswith(sql_upper, <<"S","E","L","E","C","T">>)
                  \/ startswith(sql_upper, <<"W","I","T","H">>))
        THEN <<FALSE, "Query must start with SELECT or WITH">>
        ELSE <<TRUE, "">>

\* lines 94-125: prefix and balance checks on the cleaned text
structure_checks(sql_clean) ==
    LET sql_upper == upper(sql_clean)
    IN  IF ~(\/ startswith(sql_upper, <<"S","E","L","E","C","T">>)
             \/ startswith(sql_upper, <<"W","I","T","H">>))
        THEN <<FALSE, "Query must start with SELECT or WITH">>
        ELSE IF count(sql_clean, "(") # count(sql_clean, ")")
        THEN <<FALSE, "Unbalanced parentheses">>
        ELSE IF count(sql_clean, "'") % 2 # 0
        THEN <<FALSE, "Unbalanced single quotes">>
        ELSE IF count(sql_clean, "\"") % 2 # 0
        THEN <<FALSE, "Unbalanced double quotes">>
        ELSE IF count(sql_clean, Backtick) % 2 # 0
        THEN <<FALSE, "Unbalanced backticks">>
        ELSE <<TRUE, "">>

\* sql_clean[-1] read before the emptiness test: IndexError on an empty text
parse_sql_query_raises(sql) ==
    LET sql_clean == strip(sql)
    IN  IF sql_clean = <<>>
        THEN <<"IndexError">>
        ELSE structure_checks(without_trailing_semicolon(sql_clean))

\* the emptiness test applied to the text before it is stripped
parse_sql_query_unstripped(sql) ==
    IF sql = <<>>
    THEN <<FALSE, "Empty query">>
    ELSE structure_checks(without_trailing_semicolon(strip(sql)))

\* the emptiness test applied after the trailing semicolon has been removed
parse_sql_query_empty_after_semicolon(sql) ==
    LET sql_clean == without_trailing_semicolon(strip(sql))
    IN  IF sql_clean = <<>>
        THEN <<FALSE, "Empty query">>
        ELSE structure_checks(sql_clean)

parse_sql_query(sql) ==
    LET sql_clean == strip(sql)
    IN  IF sql_clean = <<>>
        THEN <<FALSE, "Empty query">>
        ELSE structure_checks(without_trailing_semicolon(sql_clean))

\* a call that raised returns no tuple: the model writes it as a 1-tuple
\* holding the exception's name
Raised(r) == Len(r) = 1

\* the tuple of parse_sql_query returned as it is
validate_sql_security_passthrough(sql) ==
    LET r1 == check_forbidden_keywords(sql)
    IN  IF Raised(r1) THEN r1
        ELSE IF ~r1[1] THEN <<FALSE, r1[2]>>
        ELSE parse_sql_query(sql)

\* parse_sql_query called before check_forbidden_keywords
validate_sql_security_parse_first(sql) ==
    LET r2 == parse_sql_query(sql)
    IN  IF Raised(r2) THEN r2
        ELSE IF ~r2[1] THEN <<FALSE, r2[2]>>
        ELSE LET r1 == check_forbidden_keywords(sql)
             IN  IF Raised(r1) THEN r1
                 ELSE IF ~r1[1] THEN <<FALSE, r1[2]>>
                 ELSE <<TRUE, "VALID">>

\* an exception raised by either tool propagates to the caller
validate_sql_security(sql) ==
    LET r1 == check_forbidden_keywords(sql)
    IN  IF Raised(r1) THEN r1
        ELSE IF ~r1[1] THEN <<FALSE, r1[2]>>
        ELSE LET r2 == parse_sql_query(sql)
             IN  IF Raised(r2) THEN r2
                 ELSE IF ~r2[1] THEN <<FALSE, r2[2]>>
                 ELSE <<TRUE, "VALID">>

(***************************************************************************)
(* The SQL texts the sql_generation sub-agent can produce: concatenations  *)
(* of at most MaxFrags fragments                                           *)
(***************************************************************************)
Fragments == {
    <<"S","E","L","E","C","T"," ","1">>,
    <<"S","E","L","E","C","T"," ","1",";">>,
    <<"S","E","L","E","C","T"," ">>,
    <<"w","i","t","h">>,
    <<" ">>,
    <<";">>,
    <<";"," ">>,
    <<"-","-">>,
    <<"/">>,
    <<"*">>,
    <<"(">>,
    <<")">>,
    <<"'">>,
    <<"\"">>,
    <<Backtick>>,
    <<" ","D","R","O","P">>,
    <<"s","e","t">>,
    <<"E","X","E","C">>,
    <<"U","T","E">>,
    <<"_","x">>,
    <<"i","n","s","e","r","t","e","d","_","e","v","e","n","t","s">>,
    <<" ","F","R","O","M"," ","t">> }

RECURSIVE Concats(_)
Concats(n) ==
    IF n = 0 THEN {<<>>}
    ELSE LET P == Concats(n - 1) IN P \cup {p \o f : p \in P, f \in Fragments}

GeneratedQueries == Concats(MaxFrags)

\* generated texts for the balance checks: a beginning that passes or fails the
\* prefix check, is blank or holds a quoted quote, then up to MaxFrags
\* delimiters or semicolons
DelimPrefixes ==
    { <<"S","E","L","E","C","T"," ","1">>, <<"w","i","t","h"," ","x">>, <<"x">>, <<" ">>,
      <<"S","E","L","E","C","T"," ","\"","'","\"">> }

DelimFragments == { <<"(">>, <<")">>, <<"'">>, <<"\"">>, <<Backtick>>, <<";">> }

RECURSIVE DelimConcats(_)
DelimConcats(n) ==
    IF n = 0 THEN {<<>>}
    ELSE LET P == DelimConcats(n - 1) IN P \cup {p \o f : p \in P, f \in DelimFragments}

DelimQueries == {b \o d : b \in DelimPrefixes, d \in DelimConcats(MaxFrags)}

\* generated texts for the pattern checks: a beginning, then up to MaxFrags
\* pieces of semicolons and comment marks
PatternPrefixes ==
    { <<"S","E","L","E","C","T"," ","1">>,
      <<"S","E","L","E","C","T"," ","1",";"," ","S","E","L","E","C","T"," ","2">>,
      <<"c","a","l","l"," ","p">> }

PatternFragments ==
    { <<";">>, <<" ">>, <<"x">>, <<"-">>, <<"-","-">>, <<"/","*">>, <<"*","/">>,
      <<"/">>, <<"*">> }

RECURSIVE PatternConcats(_)
PatternConcats(n) ==
    IF n = 0 THEN {<<>>}
    ELSE LET P == PatternConcats(n - 1) IN P \cup {p \o f : p \in P, f \in PatternFragments}

PatternQueries == {b \o d : b \in PatternPrefixes, d \in PatternConcats(MaxFrags)}

\* what the query_execution sub-agent can return: rows, or the warehouse's error
ExecutionOutputs == {"rows", "ERROR: rejected"}

(***************************************************************************)
(* agent.py: the root SequentialAgent and its four LlmAgent sub-agents     *)
(***************************************************************************)
sub_agents == <<"sql_generation", "sql_validation", "query_execution", "insight_synthesis">>

output_keys == <<"sql_query", "validation_result", "query_results", "final_insights">>

\* an orchestrator that goes from the first sub-agent to the third
NextAgent_skipping(a) ==
    LET i == CHOOSE k \in 1..Len(sub_agents) : sub_agents[k] = a
    IN  IF i = 1 THEN sub_agents[3]
        ELSE IF i < Len(sub_agents) THEN sub_agents[i + 1] ELSE "done"

\* the sub-agent after a, in the order of sub_agents
NextAgent(a) ==
    LET i == CHOOSE k \in 1..Len(sub_agents) : sub_agents[k] = a
    IN  IF i < Len(sub_agents) THEN sub_agents[i + 1] ELSE "done"

\* a sub-agent is started once
Begin(a) == IF a \in Range(started) THEN started ELSE Append(started, a)

NoCall == [tool |-> "none", result |-> <<>>]

\* the callers of the validator functions, and a caller that has not called
Callers == 1..MaxCalls

Tools == {"check_forbidden_keywords", "parse_sql_query", "validate_sql_security"}

NoInvocation ==
    [fn |-> "none", sql |-> <<>>, sql_upper |-> <<>>, sql_clean |-> <<>>,
     at |-> "idle", result |-> <<>>]

\* the texts the callers pass: one that is accepted and has a trailing
\* semicolon, one with a keyword, one with a comment
CallInputs ==
    { <<"S","E","L","E","C","T"," ","1",";">>,
      <<"S","E","L","E","C","T"," ","s","e","t">>,
      <<"S","E","L","E","C","T"," ","1","-","-">> }

(***************************************************************************)
(* adk-multiagent-example/tools/calculator_tool.py                         *)
(*                                                                         *)
(* A Python value is a record: an int or a float with the value num/den    *)
(* in lowest terms, a str with its text, or the exception that evaluating  *)
(* an expression raised.  An int with huge = TRUE stands for an int above  *)
(* the largest float, such as 10**400, of the sign of num.                 *)
(***************************************************************************)
RECURSIVE gcd(_, _)
gcd(a, b) == IF b = 0 THEN a ELSE gcd(b, a % b)

Abs(n) == IF n < 0 THEN -n ELSE n

PyInt(n) == [kind |-> "int", num |-> n, den |-> 1, huge |-> FALSE, text |-> ""]
PyStr(s) == [kind |-> "str", num |-> 0, den |-> 1, huge |-> FALSE, text |-> s]
PyHuge(sign) == [kind |-> "int", num |-> sign, den |-> 1, huge |-> TRUE, text |-> ""]
PyRaise(e) == [kind |-> e, num |-> 0, den |-> 1, huge |-> FALSE, text |-> ""]

\* the float n/d, d # 0
PyFloat(n, d) ==
    LET s == IF d < 0 THEN -1 ELSE 1
        g == gcd(Abs(n), Abs(d))
    IN  [kind |-> "float", num |-> (s * n) \div g, den |-> (s * d) \div g,
         huge |-> FALSE, text |-> ""]

\* an int result for two ints, a float result as soon as one operand is a float
Arith(x, y, n, d) ==
    IF x.kind = "int" /\ y.kind = "int" THEN PyInt(n \div d) ELSE PyFloat(n, d)

\* float(x) for a huge int, which every mixed operation begins with
TooLarge == PyRaise("OverflowError")

\* num1 + num2, num1 - num2
py_add(x, y) ==
    IF x.huge THEN (IF y.kind = "float" THEN TooLarge ELSE x)
    ELSE Arith(x, y, x.num * y.den + y.num * x.den, x.den * y.den)

py_sub(x, y) ==
    IF x.huge THEN (IF y.kind = "float" THEN TooLarge ELSE x)
    ELSE Arith(x, y, x.num * y.den - y.num * x.den, x.den * y.den)

\* num1 * num2
py_mul(x, y) ==
    IF x.huge
    THEN IF y.kind = "float" THEN TooLarge
         ELSE IF y.num = 0 THEN PyInt(0)
         ELSE PyHuge(IF y.num < 0 THEN -x.num ELSE x.num)
    ELSE Arith(x, y, x.num * y.num, x.den * y.den)

\* num1 / num2 for num2 # 0: always a float; the quotient of a huge int by a
\* number of the model is above the largest float
py_truediv(x, y) ==
    IF x.huge THEN TooLarge ELSE PyFloat(x.num * y.den, x.den * y.num)

\* line 21 without its condition
divide_entry_unguarded(num1, num2) ==
    IF num2.num = 0 THEN PyRaise("ZeroDivisionError") ELSE py_truediv(num1, num2)

\* line 21: num1 / num2 if num2 != 0 else "Error: Division by zero"
divide_entry(num1, num2) ==
    IF num2.num # 0 THEN py_truediv(num1, num2) ELSE PyStr("Error: Division by zero")

\* lines 17-22: the dict literal, whose four values are all evaluated
operations(num1, num2) ==
    << py_add(num1, num2), py_sub(num1, num2), py_mul(num1, num2),
       divide_entry(num1, num2) >>

operation_keys ==
    << <<"a","d","d">>, <<"s","u","b","t","r","a","c","t">>,
       <<"m","u","l","t","i","p","l","y">>, <<"d","i","v","i","d","e">> >>

IsException(v) == v.kind \notin {"int", "float", "str"}

NoDict ==
    [status |-> "", operation |-> <<>>, num1 |-> PyInt(0), num2 |-> PyInt(0),
     result |-> PyInt(0), message |-> <<>>]

\* calculate(operation, num1, num2): the exception it raises, or "" and the
\* dictionary it returns; message holds the values the f-string joins
calculate(operation, num1, num2) ==
    LET ops == operations(num1, num2)
        raising == {k \in 1..Len(ops) : IsException(ops[k])}
        hit == {k \in 1..Len(operation_keys) : operation_keys[k] = lower(operation)}
        result == IF hit # {} THEN ops[First(hit)] ELSE PyStr("Error: Invalid operation")
    IN  IF raising # {}
        THEN [raised |-> ops[First(raising)].kind, returned |-> NoDict]
        ELSE [raised |-> "",
              returned |->
                 [status |-> IF result.kind \in {"int", "float"} THEN "success" ELSE "error",
                  operation |-> operation,
                  num1 |-> num1,
                  num2 |-> num2,
                  result |-> result,
                  message |-> <<num1, operation, num2, result>>]]

\* the operation names and the numbers the calculator agent passes
Operations ==
    { <<"a","d","d">>, <<"A","D","D">>, <<"S","u","b","t","r","a","c","t">>,
      <<"m","u","l","t","i","p","l","y">>, <<"d","i","v","i","d","e">>,
      <<"D","i","v","i","d","e">>, <<"i","n","v","a","l","i","d">>,
      <<"a","d","d"," ">>, <<>> }

SmallNumbers ==
    {PyInt(n) : n \in -MaxNum..MaxNum}
    \cup {PyFloat(n, d) : n \in -MaxNum..MaxNum, d \in {1, 2}}

Numbers == SmallNumbers \cup {PyHuge(1), PyHuge(-1)}

NoCalculation ==
    [operation |-> <<>>, num1 |-> PyInt(0), num2 |-> PyInt(0), called |-> FALSE,
     raised |-> "", returned |-> NoDict]

(***************************************************************************)
(* examples/api_client_spec.py                                             *)
(***************************************************************************)
\* Python's None; no question, user id or session id of the model equals it
None == "None"

\* self.base_url and self.app_name, the latter read from agent-card.json
base_url == "http://localhost:8000"
app_name == "finops-cost-data-analyst"

\* build_request(question, user_id, session_id): the payload of /run
build_request(question, user_id, session_id) ==
    [appName |-> app_name,
     userId |-> user_id,
     sessionId |-> session_id,
     newMessage |-> [role |-> "user", parts |-> <<[text |-> question]>>]]

\* what jsonschema.validate(instance, schema) does with a request: it returns,
\* or raises ValidationError with a message, or raises SchemaError for a
\* requestSchema that is no schema.  The schema is read from agent-card.json
\* when the client is constructed, so every outcome is possible.
ValidateOutcomes ==
    { [raises |-> "", text |-> ""],
      [raises |-> "ValidationError", text |-> "'' is too short"],
      [raises |-> "ValidationError", text |-> ""],
      [raises |-> "SchemaError", text |-> "'strin' is not valid under any of the given schemas"] }

\* validate_request(request): (is_valid, error), or the exception it lets through
validate_request(HAS_JSONSCHEMA, outcome) ==
    IF ~HAS_JSONSCHEMA
    THEN [raised |-> "", is_valid |-> TRUE,
          error |-> "Validation skipped (jsonschema not installed)"]
    ELSE IF outcome.raises = ""
    THEN [raised |-> "", is_valid |-> TRUE, error |-> None]
    ELSE IF outcome.raises = "ValidationError"
    THEN [raised |-> "", is_valid |-> FALSE, error |-> outcome.text]
    ELSE [raised |-> outcome.raises, is_valid |-> FALSE, error |-> None]

\* the dictionary query returns when the request is not valid
validation_failed(request, error) ==
    [status |-> "error",
     error |-> <<"Request validation failed: ", error>>,
     request |-> request]

\* what requests.post to /run and the reading of its response come to
RunOutcomes == {"ok", "HTTPError", "Timeout", "Exception"}

\* the dictionary query returns after the POST to /run
run_result(request, outcome, timeout) ==
    IF outcome = "ok"
    THEN [status |-> "success", answer |-> "answer", session_id |-> request.sessionId,
          events |-> "events", request |-> request]
    ELSE [status |-> "error",
          error |-> IF outcome = "HTTPError" THEN <<"HTTP ", "500", ": ", "text">>
                    ELSE IF outcome = "Timeout"
                    THEN <<"Request timeout after ", timeout, "s">>
                    ELSE <<"Connection refused">>,
          session_id |-> request.sessionId,
          request |-> request]

\* the arguments the examples call query with
Questions == {"What is the total cost for FY26?", ""}
UserIds == {"api-client", "my-agent"}
SessionIds == {None, "session-0"}

NoRequest == build_request("", "", None)

NoResponse == [status |-> "none"]

NoQuery ==
    [at |-> "idle", question |-> "", user_id |-> "", session_id |-> None,
     timeout |-> "60", validate_request |-> FALSE, HAS_JSONSCHEMA |-> FALSE,
     request |-> NoRequest, validated |-> FALSE, is_valid |-> FALSE, error |-> None,
     posts |-> <<>>, raised |-> "", returned |-> NoResponse]

Init ==
    /\ pc = sub_agents[1]
    /\ sql_query = <<>>
    /\ validation_result = ""
    /\ query_results = ""
    /\ final_insights = ""
    /\ tool_call = NoCall
    /\ started = <<>>
    /\ written = <<>>
    /\ forbidden_keywords = FORBIDDEN_KEYWORDS
    /\ forbidden_patterns = FORBIDDEN_PATTERNS
    /\ calls = [i \in Callers |-> NoInvocation]
    /\ calc = NoCalculation
    /\ client = NoQuery

\* sub-agent 1 stores the SQL text it generated under output_key sql_query
SqlGeneration ==
    /\ pc = "sql_generation"
    /\ \E s \in GeneratedQueries : sql_query' = s
    /\ started' = Begin("sql_generation")
    /\ written' = Append(written, output_keys[1])
    /\ pc' = NextAgent("sql_generation")
    /\ UNCHANGED <<validation_result, query_results, final_insights, tool_call>>
    /\ UNCHANGED call_vars
    /\ UNCHANGED example_vars

\* sub-agent 1 generating a text of DelimQueries
SqlGenerationDelims ==
    /\ pc = "sql_generation"
    /\ \E s \in DelimQueries : sql_query' = s
    /\ started' = Begin("sql_generation")
    /\ written' = Append(written, output_keys[1])
    /\ pc' = NextAgent("sql_generation")
    /\ UNCHANGED <<validation_result, query_results, final_insights, tool_call>>
    /\ UNCHANGED call_vars
    /\ UNCHANGED example_vars

\* sub-agent 1 generating a text of PatternQueries
SqlGenerationPatterns ==
    /\ pc = "sql_generation"
    /\ \E s \in PatternQueries : sql_query' = s
    /\ started' = Begin("sql_generation")
    /\ written' = Append(written, output_keys[1])
    /\ pc' = NextAgent("sql_generation")
    /\ UNCHANGED <<validation_result, query_results, final_insights, tool_call>>
    /\ UNCHANGED call_vars
    /\ UNCHANGED example_vars

\* sub-agent 2 calls one of its three tools on the SQL text
Call_check_forbidden_keywords ==
    /\ pc = "sql_validation"
    /\ tool_call = NoCall
    /\ tool_call' = [tool |-> "check_forbidden_keywords",
                     result |-> check_forbidden_keywords(sql_query)]
    /\ started' = Begin("sql_validation")
    /\ UNCHANGED <<pc, sql_query, validation_result, query_results, final_insights, written>>
    /\ UNCHANGED call_vars
    /\ UNCHANGED example_vars

Call_parse_sql_query ==
    /\ pc = "sql_validation"
    /\ tool_call = NoCall
    /\ tool_call' = [tool |-> "parse_sql_query", result |-> parse_sql_query(sql_query)]
    /\ started' = Begin("sql_validation")
    /\ UNCHANGED <<pc, sql_query, validation_result, query_results, final_insights, written>>
    /\ UNCHANGED call_vars
    /\ UNCHANGED example_vars

Call_validate_sql_security ==
    /\ pc = "sql_validation"
    /\ tool_call.tool # "validate_sql_security"
    /\ tool_call' = [tool |-> "validate_sql_security",
                     result |-> validate_sql_security(sql_query)]
    /\ started' = Begin("sql_validation")
    /\ UNCHANGED <<pc, sql_query, validation_result, query_results, final_insights, written>>
    /\ UNCHANGED call_vars
    /\ UNCHANGED example_vars

\* sub-agent 2 renders the verdict of validate_sql_security and stores it
\* under output_key validation_result
RenderVerdict(r) == IF r[1] THEN "VALID" ELSE "INVALID: " \o r[2]

SqlValidation ==
    /\ pc = "sql_validation"
    /\ tool_call.tool = "validate_sql_security"
    /\ ~Raised(tool_call.result)
    /\ validation_result' = RenderVerdict(tool_call.result)
    /\ written' = Append(written, output_keys[2])
    /\ tool_call' = NoCall
    /\ pc' = NextAgent("sql_validation")
    /\ UNCHANGED <<sql_query, query_results, final_insights, started>>
    /\ UNCHANGED call_vars
    /\ UNCHANGED example_vars

\* sub-agent 3 executes state['sql_query'] and stores what the warehouse returned
QueryExecution ==
    /\ pc = "query_execution"
    /\ \E out \in ExecutionOutputs : query_results' = out
    /\ started' = Begin("query_execution")
    /\ written' = Append(written, output_keys[3])
    /\ pc' = NextAgent("query_execution")
    /\ UNCHANGED <<sql_query, validation_result, final_insights, tool_call>>
    /\ UNCHANGED call_vars
    /\ UNCHANGED example_vars

\* sub-agent 4 turns the results into the text shown to the user
InsightSynthesis ==
    /\ pc = "insight_synthesis"
    /\ final_insights' = "insights on " \o query_results
    /\ started' = Begin("insight_synthesis")
    /\ written' = Append(written, output_keys[4])
    /\ pc' = NextAgent("insight_synthesis")
    /\ UNCHANGED <<sql_query, validation_result, query_results, tool_call>>
    /\ UNCHANGED call_vars
    /\ UNCHANGED example_vars

Next ==
    \/ SqlGeneration
    \/ Call_check_forbidden_keywords
    \/ Call_parse_sql_query
    \/ Call_validate_sql_security
    \/ SqlValidation
    \/ QueryExecution
    \/ InsightSynthesis

Spec == Init /\ [][Next]_vars

\* the pipeline over the texts of DelimQueries
NextDelims ==
    \/ SqlGenerationDelims
    \/ Call_check_forbidden_keywords
    \/ Call_parse_sql_query
    \/ Call_validate_sql_security
    \/ SqlValidation
    \/ QueryExecution
    \/ InsightSynthesis

SpecDelims == Init /\ [][NextDelims]_vars

\* the pipeline over the texts of PatternQueries
NextPatterns ==
    \/ SqlGenerationPatterns
    \/ Call_check_forbidden_keywords
    \/ Call_parse_sql_query
    \/ Call_validate_sql_security
    \/ SqlValidation
    \/ QueryExecution
    \/ InsightSynthesis

SpecPatterns == Init /\ [][NextPatterns]_vars

(***************************************************************************)
(* validation_tools.py called by concurrent callers: each invocation runs  *)
(* its function step by step, every step reading the module-level lists    *)
(* as they are when it runs                                                *)
(***************************************************************************)
\* a caller calls fn(s); validate_sql_security and check_forbidden_keywords
\* bind the local sql_upper (line 43) and come to the keyword loop,
\* parse_sql_query comes to its own body
Invoke(i, fn, s) ==
    /\ calls[i].at \in {"idle", "returned"}
    /\ calls' = [calls EXCEPT ![i] =
                    [fn |-> fn, sql |-> s, sql_clean |-> <<>>, result |-> <<>>,
                     sql_upper |-> IF fn = "parse_sql_query" THEN <<>> ELSE upper(s),
                     at |-> IF fn = "parse_sql_query" THEN "parse" ELSE "keywords"]]
    /\ UNCHANGED <<forbidden_keywords, forbidden_patterns>>
    /\ UNCHANGED pipeline_vars
    /\ UNCHANGED example_vars

\* invocation i returns the tuple r to its caller
Returned(i, r) == [calls EXCEPT ![i].at = "returned", ![i].result = r]

\* a keyword loop that removes the keyword it found from the list
StepKeywords_consuming(i) ==
    /\ calls[i].at = "keywords"
    /\ LET hits == {k \in 1..Len(forbidden_keywords) :
                       re_search_word(forbidden_keywords[k], calls[i].sql_upper)}
       IN  IF hits # {}
           THEN LET r == <<FALSE, "Contains forbidden keyword: "
                                    \o Text(forbidden_keywords[First(hits)])>>
                IN  /\ calls' = Returned(i, r)
                    /\ forbidden_keywords' =
                          SubSeq(forbidden_keywords, 1, First(hits) - 1)
                          \o SubSeq(forbidden_keywords, First(hits) + 1,
                                    Len(forbidden_keywords))
           ELSE /\ calls' = [calls EXCEPT ![i].at = "patterns"]
                /\ UNCHANGED forbidden_keywords
    /\ UNCHANGED forbidden_patterns
    /\ UNCHANGED pipeline_vars
    /\ UNCHANGED example_vars

\* lines 46-51: the loop over FORBIDDEN_KEYWORDS on the upper-cased text
StepKeywords(i) ==
    /\ calls[i].at = "keywords"
    /\ LET hits == {k \in 1..Len(forbidden_keywords) :
                       re_search_word(forbidden_keywords[k], calls[i].sql_upper)}
       IN  IF hits # {}
           THEN LET r == <<FALSE, "Contains forbidden keyword: "
                                    \o Text(forbidden_keywords[First(hits)])>>
                IN  calls' = Returned(i, r)
           ELSE calls' = [calls EXCEPT ![i].at = "patterns"]
    /\ UNCHANGED <<forbidden_keywords, forbidden_patterns>>
    /\ UNCHANGED pipeline_vars
    /\ UNCHANGED example_vars

\* a pattern loop run under a lock that is held until the semicolon tests are done
StepPatterns_locked(i) ==
    /\ calls[i].at = "patterns"
    /\ \A j \in Callers \ {i} : calls[j].at # "statements"
    /\ LET hits == {p \in 1..Len(forbidden_patterns) :
                       re_search(forbidden_patterns[p], calls[i].sql)}
       IN  IF hits # {}
           THEN LET r == <<FALSE, "Contains forbidden pattern: "
                                    \o forbidden_patterns[First(hits)]>>
                IN  calls' = Returned(i, r)
           ELSE calls' = [calls EXCEPT ![i].at = "statements"]
    /\ UNCHANGED <<forbidden_keywords, forbidden_patterns>>
    /\ UNCHANGED pipeline_vars
    /\ UNCHANGED example_vars

\* lines 54-57: the loop over FORBIDDEN_PATTERNS on the text as given
StepPatterns(i) ==
    /\ calls[i].at = "patterns"
    /\ LET hits == {p \in 1..Len(forbidden_patterns) :
                       re_search(forbidden_patterns[p], calls[i].sql)}
       IN  IF hits # {}
           THEN LET r == <<FALSE, "Contains forbidden pattern: "
                                    \o forbidden_patterns[First(hits)]>>
                IN  calls' = Returned(i, r)
           ELSE calls' = [calls EXCEPT ![i].at = "statements"]
    /\ UNCHANGED <<forbidden_keywords, forbidden_patterns>>
    /\ UNCHANGED pipeline_vars
    /\ UNCHANGED example_vars

\* lines 59-68: the semicolon tests, and the return of check_forbidden_keywords;
\* validate_sql_security (lines 141-146) goes on to parse_sql_query
StepStatements(i) ==
    /\ calls[i].at = "statements"
    /\ LET r == statement_guard(calls[i].sql)
       IN  IF ~r[1] \/ calls[i].fn = "check_forbidden_keywords"
           THEN calls' = Returned(i, r)
           ELSE calls' = [calls EXCEPT ![i].at = "parse"]
    /\ UNCHANGED <<forbidden_keywords, forbidden_patterns>>
    /\ UNCHANGED pipeline_vars
    /\ UNCHANGED example_vars

\* the cleaned text assigned to the caller's string instead of to a local
StepParse_in_place(i) ==
    /\ calls[i].at = "parse"
    /\ LET p == parse_sql_query(calls[i].sql)
           r == IF calls[i].fn = "parse_sql_query" THEN p
                ELSE IF ~p[1] THEN <<FALSE, p[2]>>
                ELSE <<TRUE, "VALID">>
       IN  calls' = [calls EXCEPT ![i].at = "returned", ![i].result = r,
                                  ![i].sql = without_trailing_semicolon(strip(calls[i].sql))]
    /\ UNCHANGED <<forbidden_keywords, forbidden_patterns>>
    /\ UNCHANGED pipeline_vars
    /\ UNCHANGED example_vars

\* lines 84-125: the body of parse_sql_query, which binds the local sql_clean,
\* and the return of parse_sql_query or (lines 146-150) of validate_sql_security
StepParse(i) ==
    /\ calls[i].at = "parse"
    /\ LET p == parse_sql_query(calls[i].sql)
           r == IF calls[i].fn = "parse_sql_query" THEN p
                ELSE IF ~p[1] THEN <<FALSE, p[2]>>
                ELSE <<TRUE, "VALID">>
       IN  calls' = [calls EXCEPT ![i].at = "returned", ![i].result = r,
                                  ![i].sql_clean = without_trailing_semicolon(strip(calls[i].sql))]
    /\ UNCHANGED <<forbidden_keywords, forbidden_patterns>>
    /\ UNCHANGED pipeline_vars
    /\ UNCHANGED example_vars

\* the next step of invocation i, whatever it is
Step(i) == StepKeywords(i) \/ StepPatterns(i) \/ StepStatements(i) \/ StepParse(i)

NextCalls ==
    \/ \E i \in Callers, fn \in Tools, s \in CallInputs : Invoke(i, fn, s)
    \/ \E i \in Callers : StepKeywords(i)
    \/ \E i \in Callers : StepPatterns(i)
    \/ \E i \in Callers : StepStatements(i)
    \/ \E i \in Callers : StepParse(i)

SpecCalls == Init /\ [][NextCalls]_vars

(***************************************************************************)
(* calculator_tool.py called by the calculator agent                       *)
(***************************************************************************)
\* one call of calculate; the function keeps nothing from one call to the next
Calculate ==
    /\ ~calc.called
    /\ \E operation \in Operations, num1 \in Numbers, num2 \in SmallNumbers :
          LET out == calculate(operation, num1, num2)
          IN  calc' = [operation |-> operation, num1 |-> num1, num2 |-> num2,
                       called |-> TRUE, raised |-> out.raised, returned |-> out.returned]
    /\ UNCHANGED pipeline_vars
    /\ UNCHANGED call_vars
    /\ UNCHANGED client

NextCalc == Calculate

SpecCalc == Init /\ [][NextCalc]_vars

(***************************************************************************)
(* FinOpsAgentClient.query of examples/api_client_spec.py, step by step    *)
(***************************************************************************)
\* the variables a step of query leaves alone
rest_vars == <<pipeline_vars, call_vars, calc>>

\* query is called
Query ==
    /\ client.at = "idle"
    /\ \E question \in Questions, user_id \in UserIds, session_id \in SessionIds,
          flag \in BOOLEAN, has \in BOOLEAN :
          client' = [client EXCEPT !.at = IF session_id = None THEN "create_session"
                                                                ELSE "build_request",
                                   !.question = question,
                                   !.user_id = user_id,
                                   !.session_id = session_id,
                                   !.validate_request = flag,
                                   !.HAS_JSONSCHEMA = has]
    /\ UNCHANGED rest_vars

\* _create_session: one POST to the sessions URL; a failure leaves query
CreateSession ==
    /\ client.at = "create_session"
    /\ LET url == <<base_url, "/apps/", app_name, "/users/", client.user_id, "/sessions">>
           sent == Append(client.posts, [url |-> url, json |-> <<>>])
       IN  \/ client' = [client EXCEPT !.posts = sent, !.session_id = "session-1",
                                       !.at = "build_request"]
           \/ client' = [client EXCEPT !.posts = sent, !.raised = "Exception",
                                       !.at = "done"]
    /\ UNCHANGED rest_vars

\* request = self.build_request(question, user_id, session_id)
BuildRequest ==
    /\ client.at = "build_request"
    /\ client' = [client EXCEPT
                     !.request = build_request(client.question, client.user_id,
                                               client.session_id),
                     !.at = IF client.validate_request THEN "validate_request"
                                                       ELSE "post_run"]
    /\ UNCHANGED rest_vars

\* a validation step whose verdict query does not look at
ValidateRequest_unheeded ==
    /\ client.at = "validate_request"
    /\ \E outcome \in ValidateOutcomes :
          LET v == validate_request(client.HAS_JSONSCHEMA, outcome)
          IN  IF v.raised # ""
              THEN client' = [client EXCEPT !.raised = v.raised, !.at = "done"]
              ELSE client' = [client EXCEPT !.validated = TRUE, !.is_valid = v.is_valid,
                                            !.error = v.error, !.at = "post_run"]
    /\ UNCHANGED rest_vars

\* if validate_request: is_valid, error = self.validate_request(request), and
\* the return of the error dictionary if not is_valid
ValidateRequest ==
    /\ client.at = "validate_request"
    /\ \E outcome \in ValidateOutcomes :
          LET v == validate_request(client.HAS_JSONSCHEMA, outcome)
          IN  IF v.raised # ""
              THEN client' = [client EXCEPT !.raised = v.raised, !.at = "done"]
              ELSE IF ~v.is_valid
              THEN client' = [client EXCEPT
                                 !.validated = TRUE, !.is_valid = FALSE, !.error = v.error,
                                 !.returned = validation_failed(client.request, v.error),
                                 !.at = "done"]
              ELSE client' = [client EXCEPT !.validated = TRUE, !.is_valid = TRUE,
                                            !.error = v.error, !.at = "post_run"]
    /\ UNCHANGED rest_vars

\* requests.post(f"{self.base_url}/run", json=request, timeout=timeout) and the
\* four ways the try block ends
PostRun ==
    /\ client.at = "post_run"
    /\ \E outcome \in RunOutcomes :
          client' = [client EXCEPT
                        !.posts = Append(@, [url |-> <<base_url, "/run">>,
                                               json |-> client.request]),
                        !.returned = run_result(client.request, outcome, client.timeout),
                        !.at = "done"]
    /\ UNCHANGED rest_vars

NextClient ==
    \/ Query
    \/ CreateSession
    \/ BuildRequest
    \/ ValidateRequest
    \/ PostRun

SpecClient == Init /\ [][NextClient]_vars

TypeOK ==
    /\ pc \in Range(sub_agents) \cup {"done"}
    /\ tool_call.tool \in {"none", "check_forbidden_keywords", "parse_sql_query",
                           "validate_sql_security"}

(***************************************************************************)
(* Vocabulary of the properties                                            *)
(***************************************************************************)
\* validate_sql_security has been called on state['sql_query']
Validated == tool_call.tool = "validate_sql_security"

\* the two characters are the same letter in either case, or the same character
SameLetter(a, b) == upper_char(a) = upper_char(b)

\* keyword occurs in s at position i, in any letter case
OccursAt(keyword, s, i) ==
    /\ i + Len(keyword) - 1 <= Len(s)
    /\ \A j \in 1..Len(keyword) : SameLetter(s[i + j - 1], keyword[j])

\* the occurrence at i is part of a longer identifier
Embedded(keyword, s, i) ==
    \/ (i > 1 /\ IsWordChar(s[i - 1]))
    \/ (i + Len(keyword) <= Len(s) /\ IsWordChar(s[i + Len(keyword)]))

\* keyword number k occurs in s as a whole word
WholeWord(k, s) ==
    \E i \in 1..Len(s) :
        OccursAt(FORBIDDEN_KEYWORDS[k], s, i) /\ ~Embedded(FORBIDDEN_KEYWORDS[k], s, i)

HasKeyword(s) == \E k \in 1..Len(FORBIDDEN_KEYWORDS) : WholeWord(k, s)

\* s holds a comment opener or closer
HasComment(s) ==
    \E i \in 1..(Len(s) - 1) :
        <<s[i], s[i + 1]>> \in {<<"-", "-">>, <<"/", "*">>, <<"*", "/">>}

\* some semicolon of s is followed by a character that is not whitespace
SemicolonBeforeText(s) ==
    \E i \in 1..Len(s) : s[i] = ";" /\ \E j \in (i + 1)..Len(s) : ~IsSpace(s[j])

\* some semicolon of s is followed, after whitespace only, by a word character
ChainedStatement(s) ==
    \E i \in 1..Len(s) :
        /\ s[i] = ";"
        /\ \E j \in (i + 1)..Len(s) :
              IsWordChar(s[j]) /\ \A k \in (i + 1)..(j - 1) : IsSpace(s[k])

KeywordReasons ==
    {"Contains forbidden keyword: " \o Text(FORBIDDEN_KEYWORDS[k]) :
        k \in 1..Len(FORBIDDEN_KEYWORDS)}

PatternReasons ==
    {"Contains forbidden pattern: " \o FORBIDDEN_PATTERNS[p] : p \in 1..Len(FORBIDDEN_PATTERNS)}

StatementReasons ==
    {"Multiple statements detected (multiple semicolons)",
     "Semicolon found in middle of query"}

ParseReasons ==
    {"Empty query", "Query must start with SELECT or WITH", "Unbalanced parentheses",
     "Unbalanced single quotes", "Unbalanced double quotes", "Unbalanced backticks"}

\* a (bool, str) tuple
IsVerdict(r) == Len(r) = 2 /\ r[1] \in BOOLEAN /\ r[2] \in STRING

\* s with surrounding whitespace and one trailing semicolon removed
Cleaned(s) == without_trailing_semicolon(strip(s))

\* the text begins with the letters of word, in any case
BeginsWith(s, word) == Len(s) >= Len(word) /\ \A j \in 1..Len(word) : SameLetter(s[j], word[j])

\* the first token of the text is word: the letters, then no further word character
FirstTokenIs(s, word) ==
    BeginsWith(s, word) /\ (Len(s) = Len(word) \/ ~IsWordChar(s[Len(word) + 1]))

kwSELECT == <<"S","E","L","E","C","T">>
kwWITH == <<"W","I","T","H">>

(***************************************************************************)
(* C1: every text that holds a keyword of the denylist as a whole word,    *)
(* in any letter case and anywhere (inside a quoted literal too), is       *)
(* rejected by validate_sql_security.                                      *)
(***************************************************************************)
C1_KeywordIsRejected ==
    (Validated /\ HasKeyword(sql_query)) => tool_call.result[1] = FALSE

\* a lower-case keyword in an otherwise valid query
C1_Witness ==
    /\ Validated
    /\ sql_query = <<"S","E","L","E","C","T"," ","s","e","t">>
    /\ tool_call.result = <<FALSE, "Contains forbidden keyword: SET">>

(***************************************************************************)
(* C2: query_execution is started only if the validator's verdict for the  *)
(* query was VALID.                                                        *)
(***************************************************************************)
C2_ExecutionOnlyIfValid ==
    "query_execution" \in Range(started) => validation_result = "VALID"

(***************************************************************************)
(* C3: every text that holds "--", "/*" or "*/" anywhere is rejected.      *)
(***************************************************************************)
C3_CommentIsRejected ==
    (Validated /\ HasComment(sql_query)) => tool_call.result[1] = FALSE

\* SELECT 1 followed by a line comment opener
C3_Witness ==
    /\ Validated
    /\ sql_query = <<"S","E","L","E","C","T"," ","1","-","-">>
    /\ tool_call.result = <<FALSE, "Contains forbidden pattern: --">>

(***************************************************************************)
(* C4: an accepted text has no semicolon followed by a non-whitespace      *)
(* character: at most one semicolon, and that one last.                    *)
(***************************************************************************)
C4_AcceptedHasOnlyTrailingSemicolon ==
    (Validated /\ tool_call.result[1] = TRUE) =>
        /\ count(sql_query, ";") <= 1
        /\ ~SemicolonBeforeText(sql_query)

\* an accepted text that has its one semicolon, followed by whitespace
C4_Witness ==
    /\ Validated
    /\ sql_query = <<"S","E","L","E","C","T"," ","1",";"," ">>
    /\ tool_call.result[1] = TRUE

(***************************************************************************)
(* C5: each of the three tools returns a (bool, str) tuple on every text;  *)
(* none raises.                                                            *)
(***************************************************************************)
C5_ToolsAreTotal == tool_call.tool # "none" => IsVerdict(tool_call.result)

\* parse_sql_query called on the empty text
C5_Witness ==
    /\ tool_call.tool = "parse_sql_query"
    /\ sql_query = <<>>
    /\ tool_call.result = <<FALSE, "Empty query">>

(***************************************************************************)
(* C6: the checks run in the order keywords, patterns, statement guard,    *)
(* structural parse, and the reason returned is that of the first check    *)
(* that fails.                                                             *)
(***************************************************************************)
C6_FirstFailingCheckGivesReason ==
    Validated =>
        LET s == sql_query
            reason == tool_call.result[2]
            K == HasKeyword(s)
            P == HasComment(s) \/ ChainedStatement(s)
            M == count(s, ";") > 1 \/ SemicolonBeforeText(s)
            S == ~parse_sql_query(s)[1]
        IN  /\ K => reason \in KeywordReasons
            /\ (~K /\ P) => reason \in PatternReasons
            /\ (~K /\ ~P /\ M) => reason \in StatementReasons
            /\ (~K /\ ~P /\ ~M /\ S) => reason \in ParseReasons
            /\ (~K /\ ~P /\ ~M /\ ~S) => tool_call.result[1] = TRUE

\* a keyword and a comment: only the keyword is reported
C6_Witness ==
    /\ Validated
    /\ sql_query = <<" ","D","R","O","P","-","-">>
    /\ tool_call.result = <<FALSE, "Contains forbidden keyword: DROP">>

(***************************************************************************)
(* C7: when the text holds denylisted keywords as whole words, the reason  *)
(* names the one that comes first in the denylist, wherever they occur.    *)
(***************************************************************************)
C7_FirstListedKeywordIsReported ==
    (Validated /\ HasKeyword(sql_query)) =>
        LET k == CHOOSE k \in 1..Len(FORBIDDEN_KEYWORDS) :
                     /\ WholeWord(k, sql_query)
                     /\ \A j \in 1..(k - 1) : ~WholeWord(j, sql_query)
        IN  tool_call.result =
                <<FALSE, "Contains forbidden keyword: " \o Text(FORBIDDEN_KEYWORDS[k])>>

\* SET occurs before DROP in the text, DROP before SET in the list
C7_Witness ==
    /\ Validated
    /\ sql_query = <<"s","e","t"," ","D","R","O","P">>
    /\ tool_call.result = <<FALSE, "Contains forbidden keyword: DROP">>

(***************************************************************************)
(* C8: a keyword that occurs only inside longer identifiers does not       *)
(* trigger the keyword check, and an otherwise valid query holding such    *)
(* occurrences is accepted.                                                *)
(***************************************************************************)
C8_EmbeddedKeywordIsNotReported ==
    (/\ Validated
     /\ ~HasKeyword(sql_query)
     /\ \E k \in 1..Len(FORBIDDEN_KEYWORDS), i \in 1..Len(sql_query) :
            OccursAt(FORBIDDEN_KEYWORDS[k], sql_query, i)) =>
        /\ tool_call.result[2] \notin KeywordReasons
        /\ (/\ ~HasComment(sql_query)
            /\ ~ChainedStatement(sql_query)
            /\ count(sql_query, ";") <= 1
            /\ ~SemicolonBeforeText(sql_query)
            /\ parse_sql_query(sql_query)[1]) => tool_call.result[1] = TRUE

\* SELECT inserted_events
C8_Witness ==
    /\ Validated
    /\ sql_query = <<"S","E","L","E","C","T"," ","i","n","s","e","r","t","e","d","_","e","v","e","n","t","s">>
    /\ tool_call.result[1] = TRUE

(***************************************************************************)
(* C9 as stated: a text that passes checks 1-3 and whose first token is    *)
(* not exactly SELECT or WITH is rejected with the prefix reason.          *)
(***************************************************************************)
C9_PrefixIsAToken ==
    (/\ Validated
     /\ check_forbidden_keywords(sql_query)[1]
     /\ strip(sql_query) # <<>>
     /\ ~FirstTokenIs(Cleaned(sql_query), kwSELECT)
     /\ ~FirstTokenIs(Cleaned(sql_query), kwWITH)) =>
        tool_call.result = <<FALSE, "Query must start with SELECT or WITH">>

(***************************************************************************)
(* C9 amended: a non-empty text that passes checks 1-3 is rejected with    *)
(* the prefix reason exactly when, trimmed and without its trailing        *)
(* semicolon, it does not begin with the letters SELECT or WITH in any     *)
(* case; no token boundary is required after those letters.                *)
(***************************************************************************)
C9_PrefixIsLetters ==
    (/\ Validated
     /\ check_forbidden_keywords(sql_query)[1]
     /\ strip(sql_query) # <<>>) =>
        LET begins == \/ BeginsWith(Cleaned(sql_query), kwSELECT)
                      \/ BeginsWith(Cleaned(sql_query), kwWITH)
        IN  /\ ~begins => tool_call.result = <<FALSE, "Query must start with SELECT or WITH">>
            /\ begins => tool_call.result[2] # "Query must start with SELECT or WITH"

\* with_x: the first token only begins with the letters, and the text is accepted
C9_Witness ==
    /\ Validated
    /\ sql_query = <<"w","i","t","h","_","x">>
    /\ tool_call.result = <<TRUE, "VALID">>

(***************************************************************************)
(* C10: the empty text and every whitespace-only text are rejected with    *)
(* reason Empty query.                                                     *)
(***************************************************************************)
C10_EmptyQuery ==
    (Validated /\ \A i \in 1..Len(sql_query) : IsSpace(sql_query[i])) =>
        tool_call.result = <<FALSE, "Empty query">>

\* a text of two spaces
C10_Witness ==
    /\ Validated
    /\ sql_query = <<" ", " ">>
    /\ tool_call.result = <<FALSE, "Empty query">>

(***************************************************************************)
(* C11 as stated: a text that is one semicolon with optional whitespace    *)
(* around it is rejected with reason Empty query.                          *)
(***************************************************************************)
\* s is one semicolon, with whitespace around it or none
OnlySemicolon(s) ==
    /\ count(s, ";") = 1
    /\ \A i \in 1..Len(s) : s[i] = ";" \/ IsSpace(s[i])

C11_SemicolonOnlyIsEmpty ==
    (Validated /\ OnlySemicolon(sql_query)) => tool_call.result = <<FALSE, "Empty query">>

(***************************************************************************)
(* C11 amended: the emptiness test is applied to the trimmed text before   *)
(* its trailing semicolon is removed, so a text that is one semicolon with *)
(* optional whitespace around it is rejected with the prefix reason.       *)
(***************************************************************************)
C11_SemicolonOnlyFailsPrefix ==
    (Validated /\ OnlySemicolon(sql_query)) =>
        tool_call.result = <<FALSE, "Query must start with SELECT or WITH">>

\* a space and a semicolon
C11_Witness ==
    /\ Validated
    /\ sql_query = <<" ", ";">>
    /\ tool_call.result = <<FALSE, "Query must start with SELECT or WITH">>

(***************************************************************************)
(* C12 as stated: a text without keyword and without pattern match that    *)
(* holds more than one semicolon is rejected with reason exactly           *)
(* Multiple statements detected.                                           *)
(***************************************************************************)
\* checks 1 and 2 find nothing in s
NoKeywordNoPattern(s) == ~HasKeyword(s) /\ ~HasComment(s) /\ ~ChainedStatement(s)

C12_MultipleStatementsShortReason ==
    (Validated /\ NoKeywordNoPattern(sql_query) /\ count(sql_query, ";") > 1) =>
        tool_call.result = <<FALSE, "Multiple statements detected">>

(***************************************************************************)
(* C12 amended: such a text is rejected with reason exactly                *)
(* Multiple statements detected (multiple semicolons).                     *)
(***************************************************************************)
C12_MultipleStatementsReason ==
    (Validated /\ NoKeywordNoPattern(sql_query) /\ count(sql_query, ";") > 1) =>
        tool_call.result = <<FALSE, "Multiple statements detected (multiple semicolons)">>

\* SELECT 1;;
C12_Witness ==
    /\ Validated
    /\ sql_query = <<"S","E","L","E","C","T"," ","1",";",";">>
    /\ tool_call.result = <<FALSE, "Multiple statements detected (multiple semicolons)">>

(***************************************************************************)
(* C13: a text without keyword and without pattern match whose one         *)
(* semicolon is not its last non-whitespace character is rejected with     *)
(* reason exactly Semicolon found in middle of query.                      *)
(***************************************************************************)
C13_SemicolonInMiddle ==
    (/\ Validated
     /\ NoKeywordNoPattern(sql_query)
     /\ count(sql_query, ";") = 1
     /\ SemicolonBeforeText(sql_query)) =>
        tool_call.result = <<FALSE, "Semicolon found in middle of query">>

\* SELECT 1;)
C13_Witness ==
    /\ Validated
    /\ sql_query = <<"S","E","L","E","C","T"," ","1",";",")">>
    /\ tool_call.result = <<FALSE, "Semicolon found in middle of query">>

(***************************************************************************)
(* C14: for a text s without semicolon, s followed by one semicolon (and   *)
(* then whitespace) is accepted when s is accepted, and s followed by one  *)
(* semicolon is rejected when s is rejected.                               *)
(***************************************************************************)
C14_TrailingSemicolonKeepsVerdict ==
    (Validated /\ count(sql_query, ";") = 0) =>
        LET with_semicolon == validate_sql_security(sql_query \o <<";">>)
            with_space == validate_sql_security(sql_query \o <<";", " ">>)
            with_newline == validate_sql_security(sql_query \o <<";", "\n">>)
        IN  /\ tool_call.result[1] =>
                (with_semicolon[1] /\ with_space[1] /\ with_newline[1])
            /\ ~tool_call.result[1] => ~with_semicolon[1]

\* SELECT 1, accepted, and so SELECT 1; is
C14_Witness ==
    /\ Validated
    /\ sql_query = <<"S","E","L","E","C","T"," ","1">>
    /\ tool_call.result[1] = TRUE
    /\ validate_sql_security(<<"S","E","L","E","C","T"," ","1",";">>)[1] = TRUE

(***************************************************************************)
(* C15 as stated: for a text that passes checks 1-3 and the prefix check,  *)
(* unequal counts of ( and ) give reason Unbalanced parentheses, an odd    *)
(* count of single quotes, double quotes or backticks gives the reason of  *)
(* that quote character, and an accepted text is balanced in all four.     *)
(***************************************************************************)
\* s passes checks 1-3, is not empty and passes the prefix check
ReachesBalanceChecks(s) ==
    /\ check_forbidden_keywords(s)[1]
    /\ strip(s) # <<>>
    /\ BeginsWith(Cleaned(s), kwSELECT) \/ BeginsWith(Cleaned(s), kwWITH)

Odd(n) == n % 2 = 1

IsBalanced(s) ==
    /\ count(s, "(") = count(s, ")")
    /\ ~Odd(count(s, "'"))
    /\ ~Odd(count(s, "\""))
    /\ ~Odd(count(s, Backtick))

C15_EachImbalanceGivesItsReason ==
    /\ (Validated /\ ReachesBalanceChecks(sql_query)) =>
          LET s == sql_query
              verdict == tool_call.result
          IN  /\ count(s, "(") # count(s, ")") => verdict = <<FALSE, "Unbalanced parentheses">>
              /\ Odd(count(s, "'")) => verdict = <<FALSE, "Unbalanced single quotes">>
              /\ Odd(count(s, "\"")) => verdict = <<FALSE, "Unbalanced double quotes">>
              /\ Odd(count(s, Backtick)) => verdict = <<FALSE, "Unbalanced backticks">>
    /\ (Validated /\ tool_call.result[1] = TRUE) => IsBalanced(sql_query)

(***************************************************************************)
(* C15 amended: the four balance checks run in the order parentheses,      *)
(* single quotes, double quotes, backticks, and the first one that fails   *)
(* gives the reason; an accepted text is balanced in all four.             *)
(***************************************************************************)
C15_FirstImbalanceGivesReason ==
    /\ (Validated /\ ReachesBalanceChecks(sql_query)) =>
          LET s == sql_query
              verdict == tool_call.result
              parens == count(s, "(") # count(s, ")")
              single == Odd(count(s, "'"))
              double == Odd(count(s, "\""))
              backticks == Odd(count(s, Backtick))
          IN  /\ parens => verdict = <<FALSE, "Unbalanced parentheses">>
              /\ (~parens /\ single) => verdict = <<FALSE, "Unbalanced single quotes">>
              /\ (~parens /\ ~single /\ double) =>
                    verdict = <<FALSE, "Unbalanced double quotes">>
              /\ (~parens /\ ~single /\ ~double /\ backticks) =>
                    verdict = <<FALSE, "Unbalanced backticks">>
    /\ (Validated /\ tool_call.result[1] = TRUE) => IsBalanced(sql_query)

\* SELECT 1 and then a double quote and a backtick: the double quote is reported
C15_Witness ==
    /\ Validated
    /\ sql_query = <<"S","E","L","E","C","T"," ","1","\"", Backtick>>
    /\ tool_call.result = <<FALSE, "Unbalanced double quotes">>

(***************************************************************************)
(* C16 as stated: when validate_sql_security accepts, the second           *)
(* component of its tuple is the empty string.                             *)
(***************************************************************************)
C16_AcceptedReasonIsEmpty ==
    (Validated /\ tool_call.result[1] = TRUE) => tool_call.result[2] = ""

(***************************************************************************)
(* C16 amended: when validate_sql_security accepts, the second component   *)
(* of its tuple is the literal VALID.                                      *)
(***************************************************************************)
C16_AcceptedReasonIsVALID ==
    (Validated /\ tool_call.result[1] = TRUE) => tool_call.result[2] = "VALID"

\* SELECT 1 FROM t
C16_Witness ==
    /\ Validated
    /\ sql_query = <<"S","E","L","E","C","T"," ","1"," ","F","R","O","M"," ","t">>
    /\ tool_call.result = <<TRUE, "VALID">>

(***************************************************************************)
(* C17: when validate_sql_security rejects, the reason is not empty and    *)
(* is of exactly one kind of the closed set of reasons.                    *)
(***************************************************************************)
ReasonKinds ==
    << KeywordReasons,
       PatternReasons,
       {"Multiple statements detected (multiple semicolons)"},
       {"Semicolon found in middle of query"},
       {"Empty query"},
       {"Query must start with SELECT or WITH"},
       {"Unbalanced parentheses"},
       {"Unbalanced single quotes", "Unbalanced double quotes", "Unbalanced backticks"} >>

C17_ReasonsAreClosed ==
    (Validated /\ tool_call.result[1] = FALSE) =>
        /\ tool_call.result[2] # ""
        /\ Cardinality({k \in 1..Len(ReasonKinds) : tool_call.result[2] \in ReasonKinds[k]}) = 1

\* a rejection of the last kind
C17_Witness ==
    /\ Validated
    /\ sql_query = <<"S","E","L","E","C","T"," ","1", Backtick>>
    /\ tool_call.result = <<FALSE, "Unbalanced backticks">>

(***************************************************************************)
(* C18: two invocations of validate_sql_security on the same text return   *)
(* the same tuple, whenever each of them runs and whatever validator calls *)
(* on other texts run before or between them.                              *)
(***************************************************************************)
\* caller i has its tuple back from validate_sql_security
HasVerdict(i) == calls[i].fn = "validate_sql_security" /\ calls[i].at = "returned"

C18_SameTextSameVerdict ==
    \A i, j \in Callers :
        (HasVerdict(i) /\ HasVerdict(j) /\ calls[i].sql = calls[j].sql) =>
            calls[i].result = calls[j].result

\* two callers have validated SELECT set, one after the other or interleaved
C18_Witness ==
    /\ HasVerdict(1) /\ HasVerdict(2)
    /\ calls[1].sql = <<"S","E","L","E","C","T"," ","s","e","t">>
    /\ calls[2].sql = calls[1].sql
    /\ calls[2].result = <<FALSE, "Contains forbidden keyword: SET">>

(***************************************************************************)
(* C19: no step of check_forbidden_keywords, parse_sql_query or            *)
(* validate_sql_security, whatever it returns, changes the lists           *)
(* FORBIDDEN_KEYWORDS and FORBIDDEN_PATTERNS or the string of its caller.  *)
(***************************************************************************)
InFlight(i) == calls[i].at \notin {"idle", "returned"}

C19_CallsMutateNothing ==
    [][ /\ forbidden_keywords' = forbidden_keywords
        /\ forbidden_patterns' = forbidden_patterns
        /\ \A i \in Callers : InFlight(i) => calls'[i].sql = calls[i].sql ]_vars

\* an accepted call has returned: its local sql_clean lost the semicolon, the
\* caller's string and the two lists are as they were
C19_Witness ==
    /\ HasVerdict(1)
    /\ calls[1].result = <<TRUE, "VALID">>
    /\ calls[1].sql = <<"S","E","L","E","C","T"," ","1",";">>
    /\ calls[1].sql_clean = <<"S","E","L","E","C","T"," ","1">>
    /\ forbidden_keywords = FORBIDDEN_KEYWORDS
    /\ forbidden_patterns = FORBIDDEN_PATTERNS

PassesOtherChecks(s) ==
    /\ ~HasKeyword(s)
    /\ ~HasComment(s) /\ ~ChainedStatement(s)
    /\ count(s, ";") <= 1 /\ ~SemicolonBeforeText(s)
    /\ strip(s) # <<>>
    /\ BeginsWith(Cleaned(s), kwSELECT) \/ BeginsWith(Cleaned(s), kwWITH)
    /\ IsBalanced(s)

FromClause == <<" ","F","R","O","M"," ","t">>

C21_FromIsNotRequired ==
    Validated =>
        /\ tool_call.result[1] = PassesOtherChecks(sql_query)
        /\ count(sql_query, ";") = 0 =>
              validate_sql_security(sql_query \o FromClause)[1] = tool_call.result[1]

\* SELECT 1, accepted without FROM
C21_Witness ==
    /\ Validated
    /\ sql_query = <<"S","E","L","E","C","T"," ","1">>
    /\ ~contains(upper(sql_query), <<"F","R","O","M">>)
    /\ tool_call.result[1] = TRUE
    /\ validate_sql_security(sql_query \o FromClause)[1] = TRUE

(***************************************************************************)
(* C22: validate_sql_security returns the same tuple for a text, for the   *)
(* text with its letters changed between upper and lower case, and for the *)
(* text with whitespace added before or after it.                          *)
(***************************************************************************)
\* the letter c in the other case, any other character as it is
OtherCase(c) ==
    IF c \in DOMAIN UpperOf THEN UpperOf[c]
    ELSE IF c \in DOMAIN LowerOf THEN LowerOf[c]
    ELSE c

\* s with every letter, every upper-case letter, or the letters at odd
\* positions changed to the other case
CaseSwapped(s) == [i \in 1..Len(s) |-> OtherCase(s[i])]
Lowered(s) == lower(s)
OddSwapped(s) == [i \in 1..Len(s) |-> IF i % 2 = 1 THEN OtherCase(s[i]) ELSE s[i]]

C22_CaseAndPaddingKeepVerdict ==
    Validated =>
        LET s == sql_query
            verdict == tool_call.result
        IN  /\ validate_sql_security(upper(s)) = verdict
            /\ validate_sql_security(Lowered(s)) = verdict
            /\ validate_sql_security(CaseSwapped(s)) = verdict
            /\ validate_sql_security(OddSwapped(s)) = verdict
            /\ validate_sql_security(<<" ", " ">> \o s) = verdict
            /\ validate_sql_security(s \o <<" ">>) = verdict
            /\ validate_sql_security(<<"\n">> \o s \o <<"\t", "\n">>) = verdict

\* SELECT 1; is accepted, and so are "  select 1;" and "SELECT 1; "
C22_Witness ==
    /\ Validated
    /\ sql_query = <<"S","E","L","E","C","T"," ","1",";">>
    /\ tool_call.result = <<TRUE, "VALID">>
    /\ validate_sql_security(<<" ", " ">> \o Lowered(sql_query)) = <<TRUE, "VALID">>
    /\ validate_sql_security(sql_query \o <<" ">>) = <<TRUE, "VALID">>

(***************************************************************************)
(* C23: the root agent has four sub-agents, which start in the order       *)
(* sql_generation, sql_validation, query_execution, insight_synthesis and  *)
(* write sql_query, validation_result, query_results, final_insights in    *)
(* that order; validation_result is written before query_execution starts  *)
(* and query_results before insight_synthesis starts.                      *)
(***************************************************************************)
IsPrefix(p, s) == Len(p) <= Len(s) /\ SubSeq(s, 1, Len(p)) = p

C23_SubAgentsRunInOrder ==
    /\ sub_agents = <<"sql_generation", "sql_validation", "query_execution",
                      "insight_synthesis">>
    /\ IsPrefix(started, sub_agents)
    /\ IsPrefix(written, <<"sql_query", "validation_result", "query_results",
                           "final_insights">>)
    /\ (pc = "query_execution" \/ "query_execution" \in Range(started)) =>
          "validation_result" \in Range(written)
    /\ (pc = "insight_synthesis" \/ "insight_synthesis" \in Range(started)) =>
          "query_results" \in Range(written)

\* a run that has come to its end
C23_Witness ==
    /\ pc = "done"
    /\ started = sub_agents
    /\ written = output_keys
    /\ validation_result # ""
    /\ final_insights # ""

(***************************************************************************)
(* C24: calculate('divide', a, 0) raises for no number a and returns a     *)
(* dictionary with status error and result Error: Division by zero.        *)
(***************************************************************************)
opDivide == <<"d","i","v","i","d","e">>

\* calculate has been called with the operation divide and the int 0, or
\* with a float zero and a number that a float can hold
DividedByZero ==
    /\ calc.called
    /\ calc.operation = opDivide
    /\ \/ calc.num2 = PyInt(0)
       \/ calc.num2 = PyFloat(0, 1) /\ ~calc.num1.huge

opAdd == <<"a","d","d">>
opSubtract == <<"s","u","b","t","r","a","c","t">>
opMultiply == <<"m","u","l","t","i","p","l","y">>

\* what the claim says of the call that calc records
CalculateAsStated ==
    LET op == Lowered(calc.operation)
        a == calc.num1
        b == calc.num2
        out == calc.returned
        succeeds == op \in {opAdd, opSubtract, opMultiply} \/ (op = opDivide /\ b.num # 0)
    IN  /\ calc.raised = ""
        /\ (out.status = "success") = succeeds
        /\ ~succeeds => out.status = "error"
        /\ (op = opAdd) => out.result = py_add(a, b)
        /\ (op = opSubtract) => out.result = py_sub(a, b)
        /\ (op = opMultiply) => out.result = py_mul(a, b)
        /\ (op = opDivide /\ b.num # 0) => out.result = py_truediv(a, b)
        /\ op \notin {opAdd, opSubtract, opMultiply, opDivide} =>
              out.result = PyStr("Error: Invalid operation")

C25_CalculateTotalOnNumbers == calc.called => CalculateAsStated

\* the same for a first argument that a float can hold
C25_InFloatRange == (calc.called /\ ~calc.num1.huge) => CalculateAsStated

(***************************************************************************)
(* C26: a text without keyword that matches a forbidden pattern is         *)
(* rejected with Contains forbidden pattern: and the regex source of the   *)
(* first entry of [;\s*\w, --, /\*, \*/] that matches; a chained statement *)
(* without keyword is so reported for ;\s*\w and never with one of the     *)
(* two semicolon reasons.                                                  *)
(***************************************************************************)
\* the characters a and b occur in s next to each other, in this order
HasPair(s, a, b) == \E i \in 1..(Len(s) - 1) : s[i] = a /\ s[i + 1] = b

\* the first of the four matches in s, or 0
FirstPatternIn(s) ==
    IF ChainedStatement(s) THEN 1
    ELSE IF HasPair(s, "-", "-") THEN 2
    ELSE IF HasPair(s, "/", "*") THEN 3
    ELSE IF HasPair(s, "*", "/") THEN 4
    ELSE 0

PatternSources == << ";\\s*\\w", "--", "/\\*", "\\*/" >>

C26_FirstPatternIsReported ==
    (Validated /\ ~HasKeyword(sql_query) /\ FirstPatternIn(sql_query) # 0) =>
        /\ tool_call.result =
              <<FALSE, "Contains forbidden pattern: "
                          \o PatternSources[FirstPatternIn(sql_query)]>>
        /\ tool_call.result[2] \notin StatementReasons

\* SELECT 1; SELECT 2--: two semicolon-free patterns match, the first is reported
C26_Witness ==
    /\ Validated
    /\ sql_query = <<"S","E","L","E","C","T"," ","1",";"," ",
                     "S","E","L","E","C","T"," ","2","-","-">>
    /\ tool_call.result = <<FALSE, "Contains forbidden pattern: ;\\s*\\w">>

(***************************************************************************)
(* C27: parse_sql_query reports the first failure in the order empty,      *)
(* prefix, parentheses, single quotes, double quotes, backticks: a text    *)
(* without the prefix is reported for the prefix whatever its delimiters,  *)
(* unequal parentheses are reported before odd single quotes, and odd      *)
(* single quotes before odd backticks.                                     *)
(***************************************************************************)
\* parse_sql_query has been called on state['sql_query']
Parsed == tool_call.tool = "parse_sql_query"

C27_ParseReportsFirstFailure ==
    Parsed =>
        LET s == sql_query
            verdict == tool_call.result
            empty == strip(s) = <<>>
            prefix == ~(BeginsWith(Cleaned(s), kwSELECT) \/ BeginsWith(Cleaned(s), kwWITH))
            parens == count(s, "(") # count(s, ")")
            single == Odd(count(s, "'"))
            double == Odd(count(s, "\""))
            backticks == Odd(count(s, Backtick))
        IN  /\ empty => verdict = <<FALSE, "Empty query">>
            /\ (~empty /\ prefix) => verdict = <<FALSE, "Query must start with SELECT or WITH">>
            /\ (~empty /\ ~prefix /\ parens) => verdict = <<FALSE, "Unbalanced parentheses">>
            /\ (~empty /\ ~prefix /\ ~parens /\ single) =>
                  verdict = <<FALSE, "Unbalanced single quotes">>
            /\ (~empty /\ ~prefix /\ ~parens /\ ~single /\ double) =>
                  verdict = <<FALSE, "Unbalanced double quotes">>
            /\ (~empty /\ ~prefix /\ ~parens /\ ~single /\ ~double /\ backticks) =>
                  verdict = <<FALSE, "Unbalanced backticks">>

\* SELECT 1 and then a single quote and a backtick
C27_Witness ==
    /\ Parsed
    /\ sql_query = <<"S","E","L","E","C","T"," ","1","'", Backtick>>
    /\ tool_call.result = <<FALSE, "Unbalanced single quotes">>

(***************************************************************************)
(* C28: validate_sql_security accepts exactly when both of its tools       *)
(* accept; when it rejects, its message is that of check_forbidden_keywords*)
(* if that tool rejects and else that of parse_sql_query; when it accepts, *)
(* its message is VALID and the message of both tools is the empty string. *)
(***************************************************************************)
C28_ValidateComposesItsTools ==
    Validated =>
        LET keywords == check_forbidden_keywords(sql_query)
            parse == parse_sql_query(sql_query)
            verdict == tool_call.result
        IN  /\ verdict[1] = (keywords[1] /\ parse[1])
            /\ ~keywords[1] => verdict[2] = keywords[2]
            /\ (keywords[1] /\ ~parse[1]) => verdict[2] = parse[2]
            /\ verdict[1] => (verdict[2] = "VALID" /\ keywords[2] = "" /\ parse[2] = "")

\* both tools reject DROP and the message is that of check_forbidden_keywords
C28_Witness ==
    /\ Validated
    /\ sql_query = <<" ","D","R","O","P">>
    /\ parse_sql_query(sql_query) = <<FALSE, "Query must start with SELECT or WITH">>
    /\ tool_call.result = <<FALSE, "Contains forbidden keyword: DROP">>

(***************************************************************************)
(* C29: for a text that passes all other checks, acceptance depends on the *)
(* counts of the delimiters only: equal counts of ( and ) are accepted     *)
(* also where a ) comes before its (, and a quote character inside a       *)
(* literal of another quote character is counted like any other.           *)
(***************************************************************************)
\* some ) of s comes before the ( that would match it
ClosesBeforeOpens(s) ==
    \E i \in 1..Len(s) :
        /\ s[i] = ")"
        /\ Cardinality({j \in 1..i : s[j] = ")"}) > Cardinality({j \in 1..i : s[j] = "("})

\* some single quote of s stands between two double quotes
QuotedQuote(s) ==
    \E i, j, k \in 1..Len(s) : i < j /\ j < k /\ s[i] = "\"" /\ s[j] = "'" /\ s[k] = "\""

C29_OnlyCountsMatter ==
    (Validated /\ ReachesBalanceChecks(sql_query)) =>
        /\ tool_call.result[1] = IsBalanced(sql_query)
        /\ (ClosesBeforeOpens(sql_query) /\ IsBalanced(sql_query)) =>
              tool_call.result = <<TRUE, "VALID">>
        /\ (QuotedQuote(sql_query) /\ tool_call.result[1]) => ~Odd(count(sql_query, "'"))

\* SELECT 1)( is accepted, and SELECT "'" is rejected for its single quote
C29_Witness ==
    /\ Validated
    /\ sql_query = <<"S","E","L","E","C","T"," ","1",")","(">>
    /\ ClosesBeforeOpens(sql_query)
    /\ tool_call.result = <<TRUE, "VALID">>
    /\ validate_sql_security(<<"S","E","L","E","C","T"," ","\"","'","\"">>)
          = <<FALSE, "Unbalanced single quotes">>

(***************************************************************************)
(* C30: in a call of query with validate_request = True, the POST to /run  *)
(* is sent only after validate_request has returned is_valid = True for    *)
(* the built request; when it returns is_valid = False, query returns a    *)
(* dictionary with status "error" whose error starts with                  *)
(* "Request validation failed:", and no POST to /run is sent in that call. *)
(***************************************************************************)
\* a POST to /run has been sent in this call
RunPosted == \E k \in 1..Len(client.posts) : client.posts[k].url = <<base_url, "/run">>

\* validate_request returned is_valid = False in this call
ValidationFailed == client.validated /\ ~client.is_valid

C30_RunOnlyAfterValidation ==
    client.validate_request =>
        /\ RunPosted =>
              /\ client.validated /\ client.is_valid
              /\ client.posts[Len(client.posts)].json = client.request
              /\ client.request =
                    build_request(client.question, client.user_id, client.session_id)
        /\ ValidationFailed =>
              /\ ~RunPosted
              /\ client.at = "done"
              /\ client.raised = ""
              /\ client.returned.status = "error"
              /\ client.returned.error[1] = "Request validation failed: "
              /\ client.returned.error[2] = client.error
              /\ client.returned.request = client.request

\* a call that created its session and then failed validation: one POST, to
\* the sessions URL, and the error dictionary
C30_Witness ==
    /\ client.validate_request
    /\ client.HAS_JSONSCHEMA
    /\ ValidationFailed
    /\ Len(client.posts) = 1
    /\ ~RunPosted
    /\ client.returned.status = "error"
    /\ client.returned.error = <<"Request validation failed: ", "'' is too short">>

====
